---- MODULE Spec2Model ----
(***************************************************************************)
(* RyUnfair: the notification lifecycle of the serverless API.             *)
(*                                                                         *)
(* State is the Supabase database (users, tracked_flights, notifications), *)
(* the clock, the e-mail provider's record of the send calls it received,  *)
(* and the position of each running invocation of the cron dispatcher      *)
(* (api/cron/send-notifications).  The request handlers subscribe,         *)
(* track-flight, verify, unsubscribe and user/data DELETE are one action   *)
(* each; the dispatcher is one action per awaited call, so that other      *)
(* requests and a second dispatcher run can interleave with its loop.      *)
(*                                                                         *)
(* Spec is the system as the cron trigger operates it (one invocation of   *)
(* the dispatcher at a time, which may crash or lose a status update);     *)
(* SpecOverlap lets a second invocation start while the first is running,  *)
(* on the database of a user whose flight has its three notifications.     *)
(* SpecCalc applies the eligibility calculator of the client (app.js) to   *)
(* every input of a bounded set.  SpecTrack is the web client (its flight  *)
(* tracker and its subscribe request) together with track-flight requests  *)
(* of any content.  SpecQueue is the dispatcher on its own, invoked on a   *)
(* notifications table of any content the schema allows; SpecQueueFair is  *)
(* SpecQueue with an invocation that keeps running while it has a step.    *)
(* SpecAccount is the API without the dispatcher: subscribe with any body  *)
(* and a database that can fail, verify with any token, unsubscribe,       *)
(* erasure and track-flight.  SpecBacklog is the dispatcher on a table     *)
(* with more due records than one batch selects, and SpecBacklogFair is    *)
(* SpecBacklog with invocations that keep running.  SpecAgree applies the  *)
(* calculator of the client and the one of flight-status to the same       *)
(* flight.  SpecTracker is the flight tracker of the client called in any  *)
(* order.                                                                  *)
(***************************************************************************)
EXTENDS Integers, Sequences, FiniteSets, Bags

----------------------------------------------------------------------------
(* Bounds of the model *)

MaxUsers == 2          \* rows the users table can hold
MaxNotifs == 4         \* rows the notifications table can hold
TickDays == 15         \* days that pass in one advance of the clock
MaxFaults == 1         \* crashes / failed status updates of the dispatcher
MaxRequests == 4       \* HTTP requests served by the API handlers
QueueLen == 2          \* rows of the notifications table the dispatcher starts on
MaxTimers == 2         \* intervals of the web client that can be active
BacklogOver == 1       \* due records the table holds beyond the batch limit

Emails == {"a", "b"}   \* e-mail addresses requests can name
FlightKeys == {"F1"}   \* (flight number, flight date) pairs requests can name
Runs == {1, 2}         \* dispatcher invocations that can be in progress

----------------------------------------------------------------------------
(* Program constants *)

FollowupFirstDays == 15
FollowupFinalDays == 30
BatchLimit == 50

UserIds == 1..MaxUsers
NotifIds == 1..MaxNotifs

FlightKinds == {"flight_result", "followup_15d", "followup_30d"}

\* keys of the dispatcher's template table
Templates ==
    {"verification", "flight_result_eligible", "followup_donation",
     "followup_donation_final"}

----------------------------------------------------------------------------
VARIABLES
    users,      \* users table: id -> row
    flights,    \* tracked_flights table: the bag of its rows
    notifs,     \* notifications table: sequence of rows, id = index
    now,        \* the clock, in days
    pc,         \* dispatcher run -> position in the handler
    batch,      \* dispatcher run -> ids read from the view, not yet processed
    cur,        \* dispatcher run -> id of the record being processed (0: none)
    optedOut,   \* dispatcher run -> owners of selected records whose consent was
                \* withdrawn before the selection and not given again since
    tally,      \* dispatcher run -> its counters sent, failed, skipped and
                \* the number of records it read (notifications.length)
    response,   \* dispatcher run -> the HTTP response its invocation returns
                \* in the step just taken (NoResponse: it returned none)
    handed,     \* notification id -> number of provider send calls for it
    mails,      \* user id -> number of provider send calls of subscribe for
                \* the verification message of that user
    audit,      \* user ids with a consent_given row in gdpr_audit_log
    refused,    \* the answer of the request served in the step just taken
                \* when it was not served as asked: the error of subscribe, or
                \* the redirect of verify other than verified=success
    withheld,   \* the consent field of the subscribe request served in the
                \* step just taken when it is not true ("none": it is true,
                \* or the step served no subscribe request)
    faults,     \* crashes and failed status updates so far
    requests,   \* HTTP requests served so far
    input,      \* arguments of a call of calculateCompensation
    verdict,    \* what the call returned (NoVerdict: not called yet)
    currentFlight,  \* FlightTracker.currentFlight of the web client
    timers,     \* intervals set by the web client and not cleared
    pollInterval,   \* FlightTracker.pollInterval holds a handle (FALSE: null)
    flightStatus    \* a call of GET /api/flight-status: the delay and airports
                \* of the flight it found, and the compensation it answered

vars ==
    <<users, flights, notifs, now, pc, batch, cur, optedOut, tally, response,
      handed, mails, audit, refused, withheld, faults, requests, input,
      verdict,
      currentFlight, timers, pollInterval, flightStatus>>

dbVars == <<users, flights, notifs>>
runVars == <<pc, batch, cur, optedOut, tally, handed, faults>>
clientVars == <<input, verdict, currentFlight, timers, pollInterval, flightStatus>>

----------------------------------------------------------------------------
(* Rows *)

NoUser ==
    [state |-> "none", email |-> "none", email_verified |-> FALSE,
     consent_given |-> FALSE, has_token |-> FALSE]

\* SQL NULL in a numeric column
Null == -1

\* what a lookup in tracked_flights gives when no row matches
NoFlight ==
    [user_id |-> 0, flight |-> "none", departure_airport |-> "none",
     arrival_airport |-> "none", distance_km |-> Null, delay_minutes |-> 0,
     compensation_eligible |-> FALSE, compensation_amount |-> Null,
     compensation_currency |-> "EUR", status |-> "none"]

\* the row of table for the flight k of user u, or NoFlight
TrackedIn(table, u, k) ==
    IF \E r \in BagToSet(table) : r.user_id = u /\ r.flight = k
    THEN CHOOSE r \in BagToSet(table) : r.user_id = u /\ r.flight = k
    ELSE NoFlight

TrackedFlight(u, k) == TrackedIn(flights, u, k)

\* an insert that ignores the rows already there
Upsert_AlwaysInsert(table, row) == table (+) SetToBag({row})

\* .upsert(row, {onConflict: 'user_id,flight_number,flight_date'}): the row
\* with the same key is replaced, and without one the row is inserted
Upsert(table, row) ==
    LET others == {r \in BagToSet(table) :
                      ~(r.user_id = row.user_id /\ r.flight = row.flight)}
    IN  [r \in others \cup {row} |-> IF r \in others THEN table[r] ELSE 1]

\* the row with the given e-mail that is not soft-deleted, or 0
\* (.eq('email', e).is('deleted_at', null).single())
ActiveUserByEmail(e) ==
    IF \E u \in UserIds : users[u].state = "active" /\ users[u].email = e
    THEN CHOOSE u \in UserIds : users[u].state = "active" /\ users[u].email = e
    ELSE 0

\* the id uuid_generate_v4() gives the next inserted users row, or 0 when the
\* table of the model is full
FreeUserId ==
    IF \E u \in UserIds : users[u].state = "none"
    THEN CHOOSE u \in UserIds :
            users[u].state = "none" /\ \A v \in UserIds : users[v].state = "none" => u <= v
    ELSE 0

Notification(u, k, type, subject_template, at) ==
    [user_id |-> u, flight |-> k, type |-> type,
     template_used |-> subject_template, status |-> "pending",
     external_id |-> Null, scheduled_for |-> at, created_at |-> now]

----------------------------------------------------------------------------
(* Responses and counters of the dispatcher *)

\* let sent = 0; let failed = 0; let skipped = 0; before any record is read
NoTally == [processed |-> 0, sent |-> 0, failed |-> 0, skipped |-> 0]

\* no response: the invocation is running, or was killed, or never started
NoResponse ==
    [status |-> 0, body |-> "none", error |-> "none", processed |-> Null,
     sent |-> Null, failed |-> Null, skipped |-> Null]

\* the summary the handler returns after its loop, with status 200
Summary(t) ==
    [status |-> 200, body |-> "summary", error |-> "none",
     processed |-> t.processed, sent |-> t.sent, failed |-> t.failed,
     skipped |-> t.skipped]

\* what the handler returns when the view gave no row: status 200 and a
\* message, without the counters
EmptyResult ==
    [status |-> 200, body |-> "message", error |-> "none", processed |-> Null,
     sent |-> Null, failed |-> Null, skipped |-> Null]

\* an error response: status and the error text of its body
ErrorResponse(status, error) ==
    [status |-> status, body |-> "error", error |-> error, processed |-> Null,
     sent |-> Null, failed |-> Null, skipped |-> Null]

\* the request of the step was served as asked, or the step served none
NoRefusal == [status |-> 0, error |-> "none", token |-> Null]

\* an error response of subscribe (status and the error text of its body)
Refusal(status, error) == [status |-> status, error |-> error, token |-> Null]

\* a redirect of verify for the token t of the request: 302 and the value of
\* its error or verified parameter
Redirect(to, t) == [status |-> 302, error |-> to, token |-> t]

\* no request of subscribe or verify is served in the step
NoRequest ==
    /\ refused' = NoRefusal
    /\ withheld' = "none"
    /\ UNCHANGED <<mails, audit>>

\* no invocation of the dispatcher returns in the step
Quiet == [d \in Runs |-> NoResponse]

\* the invocation d returns r in the step
Respond(d, r) == [Quiet EXCEPT ![d] = r]

----------------------------------------------------------------------------
(* The eligibility calculator of the client (app.js) *)

\* country codes the calculator is called with
Countries == {"GB", "IE", "ES"}

\* distances (km) and delays (minutes) the calculator is called with: below,
\* at and above every threshold of the code, and a negative value
Distances == {-1, 0, 1499, 1500, 1501, 3500, 3501, 4000}
Delays == {-1, 0, 179, 180, 181, 239, 240, 241}

Inputs ==
    [distanceKm : Distances, delayMinutes : Delays,
     departureCountry : Countries, arrivalCountry : Countries]

NoInput ==
    [distanceKm |-> 0, delayMinutes |-> 0,
     departureCountry |-> "none", arrivalCountry |-> "none"]

NoVerdict == [amount |-> 0, currency |-> "none", eligible |-> FALSE]

\* the calculator with the top band paid in full from 3 hours
calculateCompensation_LongHaulFlat(distanceKm, delayMinutes, departureCountry, arrivalCountry) ==
    LET isUkFlight == departureCountry = "GB" \/ arrivalCountry = "GB"
    IN  IF delayMinutes < 180
        THEN [amount |-> 0, currency |-> "€", eligible |-> FALSE]
        ELSE [amount |->
                 IF distanceKm < 1500 THEN (IF isUkFlight THEN 220 ELSE 250)
                 ELSE IF distanceKm <= 3500 THEN (IF isUkFlight THEN 350 ELSE 400)
                 ELSE (IF isUkFlight THEN 520 ELSE 600),
              currency |-> IF isUkFlight THEN "£" ELSE "€",
              eligible |-> TRUE]

\* the calculator with the gate written delayMinutes <= 180
calculateCompensation_GateExclusive(distanceKm, delayMinutes, departureCountry, arrivalCountry) ==
    LET isUkFlight == departureCountry = "GB" \/ arrivalCountry = "GB"
    IN  IF delayMinutes <= 180
        THEN [amount |-> 0, currency |-> "€", eligible |-> FALSE]
        ELSE [amount |->
                 IF distanceKm < 1500 THEN (IF isUkFlight THEN 220 ELSE 250)
                 ELSE IF distanceKm <= 3500 THEN (IF isUkFlight THEN 350 ELSE 400)
                 ELSE IF delayMinutes >= 240 THEN (IF isUkFlight THEN 520 ELSE 600)
                 ELSE (IF isUkFlight THEN 260 ELSE 300),
              currency |-> IF isUkFlight THEN "£" ELSE "€",
              eligible |-> TRUE]

\* the calculator with the first band written distanceKm <= 1500
calculateCompensation_BandInclusive(distanceKm, delayMinutes, departureCountry, arrivalCountry) ==
    LET isUkFlight == departureCountry = "GB" \/ arrivalCountry = "GB"
    IN  IF delayMinutes < 180
        THEN [amount |-> 0, currency |-> "€", eligible |-> FALSE]
        ELSE [amount |->
                 IF distanceKm <= 1500 THEN (IF isUkFlight THEN 220 ELSE 250)
                 ELSE IF distanceKm <= 3500 THEN (IF isUkFlight THEN 350 ELSE 400)
                 ELSE IF delayMinutes >= 240 THEN (IF isUkFlight THEN 520 ELSE 600)
                 ELSE (IF isUkFlight THEN 260 ELSE 300),
              currency |-> IF isUkFlight THEN "£" ELSE "€",
              eligible |-> TRUE]

\* function calculateCompensation of app.js, without the reason text; no
\* argument is validated and no path throws for a number
calculateCompensation(distanceKm, delayMinutes, departureCountry, arrivalCountry) ==
    LET isUkFlight == departureCountry = "GB" \/ arrivalCountry = "GB"
    IN  IF delayMinutes < 180
        THEN [amount |-> 0, currency |-> "€", eligible |-> FALSE]
        ELSE [amount |->
                 IF distanceKm < 1500 THEN (IF isUkFlight THEN 220 ELSE 250)
                 ELSE IF distanceKm <= 3500 THEN (IF isUkFlight THEN 350 ELSE 400)
                 ELSE IF delayMinutes >= 240 THEN (IF isUkFlight THEN 520 ELSE 600)
                 ELSE (IF isUkFlight THEN 260 ELSE 300),
              currency |-> IF isUkFlight THEN "£" ELSE "€",
              eligible |-> TRUE]

\* the routes requests name, with the distance calculateDistance gives
Routes == {[departure |-> "STN", arrival |-> "DUB", distance |-> 470]}

\* country of an airport in the table AIRPORTS
AirportCountry(code) ==
    CASE code = "STN" -> "GB"
      [] code = "DUB" -> "IE"
      [] code = "MAD" -> "ES"
      [] code = "PMI" -> "ES"
      [] OTHER -> "none"

\* the flight data a client that ran the calculator puts in a request
\* (UIController.trackFlight: distance, delay and the verdict for them)
ClientFlightData(route, delayMinutes) ==
    [departure |-> route.departure, arrival |-> route.arrival,
     distance |-> route.distance, delayMinutes |-> delayMinutes,
     compensation |->
         calculateCompensation(route.distance, delayMinutes,
                               AirportCountry(route.departure),
                               AirportCountry(route.arrival))]

\* flight data of the requests: a flight on time and one delayed 3 hours
FlightData == {ClientFlightData(r, d) : r \in Routes, d \in {0, 180}}

\* a request that gives no flight details and no verdict
BareFlightData ==
    [departure |-> "UNK", arrival |-> "UNK", distance |-> 0,
     delayMinutes |-> 0, compensation |-> NoVerdict]

\* a request whose verdict was not computed from its delay
ForgedFlightData ==
    [departure |-> "STN", arrival |-> "DUB", distance |-> 470,
     delayMinutes |-> 0,
     compensation |-> [amount |-> 220, currency |-> "£", eligible |-> TRUE]]

\* flight data a track-flight request can carry: the handler checks none of it
AnyFlightData == FlightData \cup {BareFlightData, ForgedFlightData}

\* tracker.currentFlight = null
NoCurrentFlight ==
    [departure |-> "none", arrival |-> "none", distance |-> 0,
     delayMinutes |-> 0, compensation |-> NoVerdict, isLive |-> FALSE,
     status |-> "none", progress |-> 0]

\* delays searchFlight reports, progress of a flight in the air, and the
\* minutes one poll adds (Math.floor(Math.random() * 10))
ClientDelays == {0, 175, 180}
LiveProgress == {98, 99}
PollIncrements == {0, 5}

----------------------------------------------------------------------------
(* The compensation of GET /api/flight-status *)

\* airports of the flights the two calculators are compared on
Airports == {"STN", "DUB", "MAD", "PMI"}

\* calculateDistance for the coordinates of two airports of AIRPORTS, in
\* whole km (the code keeps the fraction; no value is near a threshold)
AirportDistance(a, b) ==
    CASE {a, b} = {"STN", "DUB"} -> 470
      [] {a, b} = {"STN", "MAD"} -> 1299
      [] {a, b} = {"STN", "PMI"} -> 1384
      [] {a, b} = {"DUB", "MAD"} -> 1451
      [] {a, b} = {"DUB", "PMI"} -> 1686
      [] {a, b} = {"MAD", "PMI"} -> 547
      [] OTHER -> 0

\* delays (minutes) AviationStack reports for a flight
StatusDelays == {0, 179, 180, 240}

\* const longRoutes of the server-side calculator
LongRoutes == {"TFS", "LPA", "ACE", "FUE", "PMI", "IBZ", "MAH"}

\* function calculateCompensation of flight-status, without the reason and
\* distance texts: 250 or 400 by the list of long routes, always in EUR
serverCalculateCompensation(delayMinutes, departure, arrival) ==
    IF delayMinutes < 180
    THEN [amount |-> 0, currency |-> "EUR", eligible |-> FALSE]
    ELSE [amount |->
             IF departure # "" /\ arrival # ""
                  /\ (departure \in LongRoutes \/ arrival \in LongRoutes)
             THEN 400 ELSE 250,
          currency |-> "EUR",
          eligible |-> TRUE]

\* no call of flight-status
NoFlightStatus ==
    [departure |-> "none", arrival |-> "none", delayMinutes |-> 0,
     compensation |-> NoVerdict]

\* the ISO code of the currency a verdict names
CurrencyCode(currency) ==
    CASE currency = "€" -> "EUR"
      [] currency = "£" -> "GBP"
      [] OTHER -> currency

----------------------------------------------------------------------------
Init ==
    /\ users = [u \in UserIds |-> NoUser]
    /\ flights = EmptyBag
    /\ notifs = <<>>
    /\ now = 0
    /\ pc = [d \in Runs |-> "idle"]
    /\ batch = [d \in Runs |-> {}]
    /\ cur = [d \in Runs |-> 0]
    /\ optedOut = [d \in Runs |-> {}]
    /\ tally = [d \in Runs |-> NoTally]
    /\ response = Quiet
    /\ handed = [n \in NotifIds |-> 0]
    /\ mails = [u \in UserIds |-> 0]
    /\ audit = {}
    /\ refused = NoRefusal
    /\ withheld = "none"
    /\ faults = 0
    /\ requests = 0
    /\ input = NoInput
    /\ verdict = NoVerdict
    /\ currentFlight = NoCurrentFlight
    /\ timers = 0
    /\ pollInterval = FALSE
    /\ flightStatus = NoFlightStatus

----------------------------------------------------------------------------
(* Time *)

\* the clock advances until the final follow-up of a flight completed at
\* the start is due
Tick ==
    /\ now + TickDays <= FollowupFinalDays
    /\ now' = now + TickDays
    /\ response' = Quiet
    /\ NoRequest
    /\ UNCHANGED <<dbVars, runVars, requests, clientVars>>

\* one more HTTP request is served and answered r
ServedWith(r) ==
    /\ requests < MaxRequests
    /\ requests' = requests + 1
    /\ response' = Quiet
    /\ refused' = r
    /\ UNCHANGED clientVars

\* one more HTTP request is served as asked
Served ==
    /\ ServedWith(NoRefusal)
    /\ withheld' = "none"

----------------------------------------------------------------------------
(* tracked_flights: upsert and the schedule_followups trigger *)

\* WHEN clause of the trigger schedule_followups (AFTER UPDATE, so never on
\* the INSERT branch of an upsert: old.status = "none" means no row existed)
ScheduleFollowupsFires(old, new) ==
    /\ old.status # "none"
    /\ old.status # new.status
    /\ new.status = "completed"

\* the trigger function without its eligibility test
ScheduleFollowupNotifications_NoEligibleTest(u, k, new) ==
    IF new.status = "completed"
    THEN << Notification(u, k, "followup_15d", "followup_donation",
                         now + FollowupFirstDays),
            Notification(u, k, "followup_30d", "followup_donation_final",
                         now + FollowupFinalDays) >>
    ELSE << >>

\* rows the trigger function schedule_followup_notifications() inserts
ScheduleFollowupNotifications(u, k, new) ==
    IF new.status = "completed" /\ new.compensation_eligible = TRUE
    THEN << Notification(u, k, "followup_15d", "followup_donation",
                         now + FollowupFirstDays),
            Notification(u, k, "followup_30d", "followup_donation_final",
                         now + FollowupFinalDays) >>
    ELSE << >>

\* rows an upsert of tracked_flights adds to notifications through the trigger
UpsertTriggerRows(u, k, new) ==
    IF ScheduleFollowupsFires(TrackedFlight(u, k), new)
    THEN ScheduleFollowupNotifications(u, k, new)
    ELSE << >>

\* track-flight: "If flight is now completed and eligible, queue result
\* notification"
ResultNotificationRows(u, k, status, eligible) ==
    IF status = "completed" /\ eligible
    THEN << Notification(u, k, "flight_result", "flight_result_eligible", now) >>
    ELSE << >>

\* the row both handlers hand to the upsert, from the flight data f of the
\* request: x || null and x || 0 turn an absent or zero number into NULL or 0,
\* compensation?.y || z reads an absent verdict as not eligible, NULL, 'EUR'
FlightRecord(u, k, status, f) ==
    [user_id |-> u, flight |-> k,
     departure_airport |-> f.departure,
     arrival_airport |-> f.arrival,
     distance_km |-> IF f.distance = 0 THEN Null ELSE f.distance,
     delay_minutes |-> f.delayMinutes,
     compensation_eligible |-> f.compensation.eligible,
     compensation_amount |->
         IF f.compensation.amount = 0 THEN Null ELSE f.compensation.amount,
     compensation_currency |->
         IF f.compensation.currency = "none" THEN "EUR"
         ELSE f.compensation.currency,
     status |-> status]

\* POST /api/track-flight for the resolved user u, with flight data f
TrackFlightFor(u, k, status, f) ==
    LET new == FlightRecord(u, k, status, f)
        rows == UpsertTriggerRows(u, k, new)
                    \o ResultNotificationRows(u, k, status,
                                              f.compensation.eligible)
    IN  /\ Served
        /\ Len(notifs) + Len(rows) <= MaxNotifs
        /\ flights' = Upsert(flights, new)
        /\ notifs' = notifs \o rows
        /\ UNCHANGED <<users, now, runVars, mails, audit>>

\* the request names the user by userId: no lookup, the row only has to exist
\* (foreign key of tracked_flights.user_id)
TrackFlightById(u, k, status, f) ==
    /\ users[u].state # "none"
    /\ TrackFlightFor(u, k, status, f)

\* the request names the user by e-mail: resolved among the non-deleted users
TrackFlightByEmail(e, k, status, f) ==
    /\ ActiveUserByEmail(e) # 0
    /\ TrackFlightFor(ActiveUserByEmail(e), k, status, f)

----------------------------------------------------------------------------
(* POST /api/subscribe *)

\* the e-mail field of a request: an address, none, or text that is no address
EmailFields == Emails \cup {"", "no-address"}

\* the consent field of a request: absent, a string, or a boolean
ConsentFields == {"absent", "text", "false", "true"}

\* what the database does during the request: every call succeeds, the
\* connection test fails, the insert of the user fails, or the insert
\* succeeds and the select of the new row fails
SubscribeOutcomes == {"ok", "db_down", "insert_fails", "fetch_fails"}

\* the error the handler returns, or NoRefusal: the validations in their
\* order, then the database errors it tests for (newUser: there is no row
\* that is not deleted for the address)
SubscribeError(e, consent, outcome, newUser) ==
    CASE e = "" \/ consent \in {"absent", "text"} ->
             Refusal(400, "Email and consent are required")
      [] consent = "false" ->
             Refusal(400, "Explicit consent is required to process your data")
      [] e \notin Emails -> Refusal(400, "Invalid email format")
      [] outcome = "db_down" -> Refusal(500, "Database connection failed")
      [] outcome = "insert_fails" /\ newUser ->
             Refusal(500, "Failed to create subscription")
      [] outcome = "fetch_fails" /\ newUser ->
             Refusal(500, "User created but failed to retrieve")
      [] OTHER -> NoRefusal

\* the handler with the consent tests after the user step: a request with
\* an address and without consent is refused after the row was written
SubscribeRequest_ConsentTestedLate(e, consent, withFlight, k, f, outcome) ==
    LET existing == ActiveUserByEmail(e)
        u == IF existing # 0 THEN existing ELSE FreeUserId
        error == SubscribeError(e, consent, outcome, existing = 0)
    IN  /\ e \in Emails
        /\ consent # "true"
        /\ u # 0
        /\ ServedWith(error)
        /\ withheld' = consent
        /\ users' =
             IF existing # 0
             THEN [users EXCEPT ![u].consent_given = TRUE]
             ELSE [users EXCEPT ![u] =
                     [state |-> "active", email |-> e, email_verified |-> FALSE,
                      consent_given |-> TRUE, has_token |-> TRUE]]
        /\ mails' = IF existing = 0 THEN [mails EXCEPT ![u] = @ + 1] ELSE mails
        /\ audit' = audit \cup {u}
        /\ UNCHANGED <<flights, notifs, now, pc, batch, cur, optedOut, tally,
                       handed, faults>>

\* the handler: validation (400), connection test, the existing-user branch
\* (consent is given again; no message) or the new-user branch (insert, select
\* of the new row, one send of the verification message, whose result only is
\* logged), the consent_given row of the audit log, the upsert of the flight
SubscribeRequest(e, consent, withFlight, k, f, outcome) ==
    LET existing == ActiveUserByEmail(e)
        u == IF existing # 0 THEN existing ELSE FreeUserId
        error == SubscribeError(e, consent, outcome, existing = 0)
        served == error = NoRefusal
        new == FlightRecord(u, k, "tracking", f)
        rows == IF served /\ withFlight THEN UpsertTriggerRows(u, k, new)
                ELSE << >>
    IN  /\ ServedWith(error)
        /\ withheld' = IF consent = "true" THEN "none" ELSE consent
        /\ error.status = 500 => faults < MaxFaults
        /\ faults' = IF error.status = 500 THEN faults + 1 ELSE faults
        /\ (served \/ error.error = "User created but failed to retrieve")
              => u # 0
        /\ users' =
             IF served /\ existing # 0
             THEN [users EXCEPT ![u].consent_given = TRUE]
             ELSE IF served \/ error.error = "User created but failed to retrieve"
             THEN [users EXCEPT ![u] =
                     [state |-> "active", email |-> e, email_verified |-> FALSE,
                      consent_given |-> TRUE, has_token |-> TRUE]]
             ELSE users
        /\ mails' = IF served /\ existing = 0
                    THEN [mails EXCEPT ![u] = @ + 1] ELSE mails
        /\ audit' = IF served THEN audit \cup {u} ELSE audit
        /\ Len(notifs) + Len(rows) <= MaxNotifs
        /\ flights' = IF served /\ withFlight THEN Upsert(flights, new)
                      ELSE flights
        /\ notifs' = notifs \o rows
        /\ optedOut' = IF served THEN [d \in Runs |-> optedOut[d] \ {u}]
                       ELSE optedOut
        /\ UNCHANGED <<now, pc, batch, cur, tally, handed>>

\* a request with an address, consent = true and a database that answers
Subscribe(e, withFlight, k, f) ==
    SubscribeRequest(e, "true", withFlight, k, f, "ok")

----------------------------------------------------------------------------
(* GET /api/verify?token=... *)

\* the token parameter of a request: the token written in the row of a user
\* at its insert (one random UUID per row, named by the row), or 0 for a value
\* no row was given
Tokens == 0..MaxUsers

\* .eq('verification_token', t).is('deleted_at', null).single(): the row, or 0
UserByToken(t) ==
    IF t \in UserIds /\ users[t].state = "active" /\ users[t].has_token
    THEN t ELSE 0

\* the handler with an update that leaves the token in the row
VerifyRequest_KeepsToken(t) ==
    LET u == UserByToken(t)
    IN  /\ ServedWith(IF u = 0 THEN Redirect("invalid_token", t)
                      ELSE IF users[u].email_verified
                      THEN Redirect("already", t)
                      ELSE NoRefusal)
        /\ withheld' = "none"
        /\ users' = IF u # 0 /\ ~users[u].email_verified
                    THEN [users EXCEPT ![u].email_verified = TRUE]
                    ELSE users
        /\ UNCHANGED <<flights, notifs, now, runVars, mails, audit>>

\* the handler: no row for the token redirects to error=invalid_token, a
\* verified row to verified=already; else one update sets email_verified and
\* clears the token
VerifyRequest(t) ==
    LET u == UserByToken(t)
    IN  /\ ServedWith(IF u = 0 THEN Redirect("invalid_token", t)
                      ELSE IF users[u].email_verified
                      THEN Redirect("already", t)
                      ELSE NoRefusal)
        /\ withheld' = "none"
        /\ users' = IF u # 0 /\ ~users[u].email_verified
                    THEN [users EXCEPT ![u].email_verified = TRUE,
                                       ![u].has_token = FALSE]
                    ELSE users
        /\ UNCHANGED <<flights, notifs, now, runVars, mails, audit>>

\* a request with the token of user u, who has not used it
Verify(u) ==
    /\ users[u].state = "active"
    /\ users[u].has_token
    /\ ~users[u].email_verified
    /\ VerifyRequest(u)

----------------------------------------------------------------------------
(* GET /api/unsubscribe and DELETE /api/user/data *)

\* the cancellation without .eq('status', 'pending')
CancelPending_AnyStatus(u) ==
    [i \in 1..Len(notifs) |->
        IF notifs[i].user_id = u
        THEN [notifs[i] EXCEPT !.status = "cancelled"]
        ELSE notifs[i]]

\* .update({status: 'cancelled'}).eq('user_id', u).eq('status', 'pending')
CancelPending(u) ==
    [i \in 1..Len(notifs) |->
        IF notifs[i].user_id = u /\ notifs[i].status = "pending"
        THEN [notifs[i] EXCEPT !.status = "cancelled"]
        ELSE notifs[i]]

Unsubscribe(e) ==
    LET u == ActiveUserByEmail(e)
    IN  /\ Served
        /\ u # 0
        /\ users' = [users EXCEPT ![u].consent_given = FALSE]
        /\ notifs' = CancelPending(u)
        /\ UNCHANGED <<flights, now, runVars, mails, audit>>

EraseUser(e) ==
    LET u == ActiveUserByEmail(e)
    IN  /\ Served
        /\ u # 0
        /\ users' = [users EXCEPT ![u].state = "deleted",
                                  ![u].email = "deleted",
                                  ![u].consent_given = FALSE]
        /\ notifs' = CancelPending(u)
        /\ UNCHANGED <<flights, now, runVars, mails, audit>>

----------------------------------------------------------------------------
(* The dispatcher: GET /api/cron/send-notifications *)

Min(a, b) == IF a <= b THEN a ELSE b

\* the view without its test of deleted_at
PendingNotifications_NoDeletedTest ==
    {i \in 1..Len(notifs) :
        /\ notifs[i].status = "pending"
        /\ notifs[i].scheduled_for <= now
        /\ users[notifs[i].user_id].email_verified = TRUE}

\* the view with failed records in it again
PendingNotifications_RetryFailed ==
    {i \in 1..Len(notifs) :
        /\ notifs[i].status \in {"pending", "failed"}
        /\ notifs[i].scheduled_for <= now
        /\ users[notifs[i].user_id].state # "deleted"
        /\ users[notifs[i].user_id].email_verified = TRUE}

\* the view without its test of email_verified
PendingNotifications_NoVerifiedTest ==
    {i \in 1..Len(notifs) :
        /\ notifs[i].status = "pending"
        /\ notifs[i].scheduled_for <= now
        /\ users[notifs[i].user_id].state # "deleted"}

\* the view pending_notifications
PendingNotifications ==
    {i \in 1..Len(notifs) :
        /\ notifs[i].status = "pending"
        /\ notifs[i].scheduled_for <= now
        /\ users[notifs[i].user_id].state # "deleted"
        /\ users[notifs[i].user_id].email_verified = TRUE}

RECURSIVE LimitedTo(_, _)

\* the select without its limit
LimitedTo_Unlimited(S, n) == {S}

\* the results a select with .limit(n) and no ORDER BY can give on the rows
\* S: all of them, or any n of them
LimitedTo(S, n) ==
    IF Cardinality(S) <= n THEN {S}
    ELSE UNION {LimitedTo(S \ {x}, n) : x \in S}

\* key of the template table for a record: "Handle legacy template names",
\* every other name is looked up as it is
TemplateName(template_used) ==
    IF template_used = "email_verification" THEN "verification"
    ELSE template_used

\* the id Resend gives the message of an accepted send of record n
DeliveryId(n) == n

\* why the handler returns before its first read: CRON_SECRET is not set, the
\* Authorization header is not 'Bearer <CRON_SECRET>', or the database or
\* Resend variables are not set
Refusals == {"no_secret", "bad_header", "no_env"}

\* the response of each early return
RefusalResponse(why) ==
    CASE why = "no_secret" -> ErrorResponse(500, "CRON_SECRET not configured")
      [] why = "bad_header" -> ErrorResponse(401, "Unauthorized")
      [] OTHER -> ErrorResponse(500, "Missing environment variables")

\* the early return placed after the records were given up
DispatchRefused_TouchesQueue(d, why) ==
    /\ pc[d] = "idle"
    /\ d = 1 \/ pc[1] # "idle"
    /\ response' = Respond(d, RefusalResponse(why))
    /\ notifs' = [i \in 1..Len(notifs) |->
                    IF notifs[i].status = "pending"
                    THEN [notifs[i] EXCEPT !.status = "failed"]
                    ELSE notifs[i]]
    /\ NoRequest
    /\ UNCHANGED <<users, flights, now, pc, batch, cur, optedOut, tally, handed,
                   faults, requests, clientVars>>

\* the handler returns before its first read
DispatchRefused(d, why) ==
    /\ pc[d] = "idle"
    /\ d = 1 \/ pc[1] # "idle"
    /\ response' = Respond(d, RefusalResponse(why))
    /\ NoRequest
    /\ UNCHANGED <<dbVars, now, pc, batch, cur, optedOut, tally, handed, faults,
                   requests, clientVars>>

\* the failed select answered after the records were given up
DispatchSelectFails_TouchesQueue(d) ==
    /\ pc[d] = "idle"
    /\ d = 1 \/ pc[1] # "idle"
    /\ response' = Respond(d, ErrorResponse(500, "Failed to fetch notifications"))
    /\ notifs' = [i \in 1..Len(notifs) |->
                    IF notifs[i].status = "pending"
                    THEN [notifs[i] EXCEPT !.status = "failed"]
                    ELSE notifs[i]]
    /\ NoRequest
    /\ UNCHANGED <<users, flights, now, pc, batch, cur, optedOut, tally, handed,
                   faults, requests, clientVars>>

\* the select from the view returns an error: "Failed to fetch notifications"
DispatchSelectFails(d) ==
    /\ pc[d] = "idle"
    /\ d = 1 \/ pc[1] # "idle"
    /\ response' = Respond(d, ErrorResponse(500, "Failed to fetch notifications"))
    /\ NoRequest
    /\ UNCHANGED <<dbVars, now, pc, batch, cur, optedOut, tally, handed, faults,
                   requests, clientVars>>

\* the handler up to its first read: authorised, environment complete, the
\* select succeeds; with an empty result it returns at once.  Invocations are
\* interchangeable, so the second slot is only used while the first is busy.
DispatchStart(d) ==
    /\ pc[d] = "idle"
    /\ d = 1 \/ pc[1] # "idle"
    /\ \E rows \in LimitedTo(PendingNotifications, BatchLimit) :
          /\ batch' = [batch EXCEPT ![d] = rows]
          /\ pc' = [pc EXCEPT ![d] = IF rows = {} THEN "idle" ELSE "loop"]
          /\ tally' = [tally EXCEPT ![d] =
                [NoTally EXCEPT !.processed = Cardinality(rows)]]
          /\ response' = IF rows = {} THEN Respond(d, EmptyResult) ELSE Quiet
          /\ optedOut' = [optedOut EXCEPT ![d] =
                {notifs[n].user_id : n \in
                    {i \in rows : ~users[notifs[i].user_id].consent_given}}]
    /\ NoRequest
    /\ UNCHANGED <<dbVars, now, cur, handed, faults, requests, clientVars>>

\* the skip that gives the record up: it is marked failed and counted so
DispatchSkip_MarksFailed(d, n) ==
    /\ pc[d] = "loop"
    /\ n \in batch[d]
    /\ TemplateName(notifs[n].template_used) \notin Templates
    /\ batch' = [batch EXCEPT ![d] = @ \ {n}]
    /\ tally' = [tally EXCEPT ![d].failed = @ + 1]
    /\ notifs' = [notifs EXCEPT ![n].status = "failed"]
    /\ response' = Quiet
    /\ NoRequest
    /\ UNCHANGED <<users, flights, now, pc, cur, optedOut, handed, faults,
                   requests, clientVars>>

\* one turn of the loop for a record without a template: skipped++; continue
DispatchSkip(d, n) ==
    /\ pc[d] = "loop"
    /\ n \in batch[d]
    /\ TemplateName(notifs[n].template_used) \notin Templates
    /\ batch' = [batch EXCEPT ![d] = @ \ {n}]
    /\ tally' = [tally EXCEPT ![d].skipped = @ + 1]
    /\ response' = Quiet
    /\ NoRequest
    /\ UNCHANGED <<dbVars, now, pc, cur, optedOut, handed, faults, requests,
                   clientVars>>

\* one turn of the loop up to the provider answer: the next record of the
\* batch is rendered and handed to Resend, which accepts or reports an error
DispatchSend(d, n, accepted) ==
    /\ pc[d] = "loop"
    /\ n \in batch[d]
    /\ TemplateName(notifs[n].template_used) \in Templates
    /\ batch' = [batch EXCEPT ![d] = @ \ {n}]
    /\ cur' = [cur EXCEPT ![d] = n]
    /\ handed' = [handed EXCEPT ![n] = @ + 1]
    /\ pc' = [pc EXCEPT ![d] = IF accepted THEN "mark_sent" ELSE "mark_failed"]
    /\ response' = Quiet
    /\ NoRequest
    /\ UNCHANGED <<dbVars, now, optedOut, tally, faults, requests, clientVars>>

\* one turn of the loop up to a provider answer that never comes: the await
\* of emails.send has no timeout, so the invocation stays there
DispatchSendHangs(d, n) ==
    /\ pc[d] = "loop"
    /\ n \in batch[d]
    /\ TemplateName(notifs[n].template_used) \in Templates
    /\ batch' = [batch EXCEPT ![d] = @ \ {n}]
    /\ cur' = [cur EXCEPT ![d] = n]
    /\ handed' = [handed EXCEPT ![n] = @ + 1]
    /\ pc' = [pc EXCEPT ![d] = "await_send"]
    /\ response' = Quiet
    /\ NoRequest
    /\ UNCHANGED <<dbVars, now, optedOut, tally, faults, requests, clientVars>>

\* the loop without its try/catch: a failed delivery ends the run in the
\* outer catch, with status 500
DispatchMark_AbortOnFailure(d, dbOk) ==
    /\ pc[d] \in {"mark_sent", "mark_failed"}
    /\ dbOk \/ faults < MaxFaults
    /\ faults' = IF dbOk THEN faults ELSE faults + 1
    /\ notifs' =
         IF ~dbOk \/ pc[d] = "mark_failed" THEN notifs
         ELSE [notifs EXCEPT ![cur[d]].status = "sent",
                             ![cur[d]].external_id = DeliveryId(cur[d])]
    /\ tally' =
         IF pc[d] = "mark_sent"
         THEN [tally EXCEPT ![d].sent = @ + 1]
         ELSE [tally EXCEPT ![d] = NoTally]
    /\ cur' = [cur EXCEPT ![d] = 0]
    /\ pc' = [pc EXCEPT ![d] = IF pc[d] = "mark_sent" THEN "loop" ELSE "idle"]
    /\ batch' = IF pc[d] = "mark_sent" THEN batch ELSE [batch EXCEPT ![d] = {}]
    /\ response' =
         IF pc[d] = "mark_sent" THEN Quiet
         ELSE Respond(d, ErrorResponse(500, "Internal server error"))
    /\ NoRequest
    /\ UNCHANGED <<users, flights, now, optedOut, handed, requests, clientVars>>

\* "Mark as sent" / "Mark as failed": update by id alone (status, and for a
\* sent record sent_at and external_id, which the one UPDATE writes together:
\* external_id stands for both); the result of the update is not inspected, so
\* a failed update (dbOk = FALSE) goes unnoticed and the record is counted all
\* the same
DispatchMark(d, dbOk) ==
    /\ pc[d] \in {"mark_sent", "mark_failed"}
    /\ dbOk \/ faults < MaxFaults
    /\ faults' = IF dbOk THEN faults ELSE faults + 1
    /\ notifs' =
         IF ~dbOk THEN notifs
         ELSE IF pc[d] = "mark_sent"
         THEN [notifs EXCEPT ![cur[d]].status = "sent",
                             ![cur[d]].external_id = DeliveryId(cur[d])]
         ELSE [notifs EXCEPT ![cur[d]].status = "failed"]
    /\ tally' =
         IF pc[d] = "mark_sent"
         THEN [tally EXCEPT ![d].sent = @ + 1]
         ELSE [tally EXCEPT ![d].failed = @ + 1]
    /\ cur' = [cur EXCEPT ![d] = 0]
    /\ pc' = [pc EXCEPT ![d] = "loop"]
    /\ response' = Quiet
    /\ NoRequest
    /\ UNCHANGED <<users, flights, now, batch, optedOut, handed, requests,
                   clientVars>>

\* the loop is over: the handler returns its summary
DispatchFinish(d) ==
    /\ pc[d] = "loop"
    /\ batch[d] = {}
    /\ pc' = [pc EXCEPT ![d] = "idle"]
    /\ optedOut' = [optedOut EXCEPT ![d] = {}]
    /\ response' = Respond(d, Summary(tally[d]))
    /\ tally' = [tally EXCEPT ![d] = NoTally]
    /\ NoRequest
    /\ UNCHANGED <<dbVars, now, batch, cur, handed, faults, requests, clientVars>>

\* the invocation dies (edge function killed or timed out) wherever it is
DispatchCrash(d) ==
    /\ pc[d] # "idle"
    /\ faults < MaxFaults
    /\ faults' = faults + 1
    /\ pc' = [pc EXCEPT ![d] = "idle"]
    /\ batch' = [batch EXCEPT ![d] = {}]
    /\ cur' = [cur EXCEPT ![d] = 0]
    /\ optedOut' = [optedOut EXCEPT ![d] = {}]
    /\ tally' = [tally EXCEPT ![d] = NoTally]
    /\ response' = Quiet
    /\ NoRequest
    /\ UNCHANGED <<dbVars, now, handed, requests, clientVars>>

----------------------------------------------------------------------------
\* values of the status field of a track-flight request (absent counts as
\* tracking; claimed stands for every other string)
ReqStatus == {"tracking", "completed", "claimed"}

\* the requests of the API, served one at a time
Requests ==
    \/ \E u \in UserIds, k \in FlightKeys, s \in ReqStatus, f \in FlightData :
          TrackFlightById(u, k, s, f)
    \/ \E e \in Emails, k \in FlightKeys, s \in ReqStatus, f \in FlightData :
          TrackFlightByEmail(e, k, s, f)
    \/ \E e \in Emails, wf \in BOOLEAN, k \in FlightKeys, f \in FlightData :
          Subscribe(e, wf, k, f)
    \/ \E u \in UserIds : Verify(u)
    \/ \E e \in Emails : Unsubscribe(e)
    \/ \E e \in Emails : EraseUser(e)

\* The system as it is operated: the cron trigger starts an invocation of the
\* dispatcher only after the previous one has ended; an invocation can crash
\* and a status update can fail.
Next ==
    \/ Tick
    \/ Requests
    \/ DispatchStart(1)
    \/ \E n \in NotifIds, ok \in BOOLEAN : DispatchSend(1, n, ok)
    \/ \E ok \in BOOLEAN : DispatchMark(1, ok)
    \/ DispatchFinish(1)
    \/ DispatchCrash(1)

Spec == Init /\ [][Next]_vars

----------------------------------------------------------------------------
(* The dispatcher on a notifications table of any content *)


\* type and template_used of a row: the kinds the schema names for the
\* column, with both names of the verification template, and a kind the
\* template table has no entry for
QueueKinds ==
    {<<"verification", "verification">>,
     <<"verification", "email_verification">>,
     <<"flight_result", "flight_result_eligible">>,
     <<"welcome", "welcome">>}

\* the two users of the table at the start: 1 has used the verification link,
\* 2 has not
QueueUsers == {1, 2}

\* a pending row of the table: due at the start or TickDays later
QueueRows ==
    {[user_id |-> u, flight |-> IF k[1] = "flight_result" THEN "F1" ELSE "none",
      type |-> k[1], template_used |-> k[2], status |-> "pending",
      external_id |-> Null, scheduled_for |-> at, created_at |-> 0] :
        u \in QueueUsers, k \in QueueKinds, at \in {0, TickDays}}

\* an order of the rows, to start from one table per set of rows
RowRank(r) ==
    (IF r.user_id = 1 THEN 0 ELSE 8)
    + (IF r.scheduled_for = 0 THEN 0 ELSE 4)
    + (CASE r.template_used = "verification" -> 0
         [] r.template_used = "email_verification" -> 1
         [] r.template_used = "flight_result_eligible" -> 2
         [] OTHER -> 3)

InitQueue ==
    /\ users = [u \in UserIds |->
          IF u = 1
          THEN [state |-> "active", email |-> "a", email_verified |-> TRUE,
                consent_given |-> TRUE, has_token |-> FALSE]
          ELSE IF u = 2
          THEN [state |-> "active", email |-> "b", email_verified |-> FALSE,
                consent_given |-> TRUE, has_token |-> TRUE]
          ELSE NoUser]
    /\ flights = SetToBag({FlightRecord(u, "F1", "completed", f) :
                              u \in QueueUsers,
                              f \in {ClientFlightData(r, 180) : r \in Routes}})
    /\ notifs \in {q \in [1..QueueLen -> QueueRows] :
                      \A i \in 1..(QueueLen - 1) : RowRank(q[i]) <= RowRank(q[i + 1])}
    /\ now = 0
    /\ pc = [d \in Runs |-> "idle"]
    /\ batch = [d \in Runs |-> {}]
    /\ cur = [d \in Runs |-> 0]
    /\ optedOut = [d \in Runs |-> {}]
    /\ tally = [d \in Runs |-> NoTally]
    /\ response = Quiet
    /\ handed = [n \in NotifIds |-> 0]
    /\ mails = [u \in UserIds |-> IF u \in QueueUsers THEN 1 ELSE 0]
    /\ audit = QueueUsers
    /\ refused = NoRefusal
    /\ withheld = "none"
    /\ faults = 0
    /\ requests = 0
    /\ input = NoInput
    /\ verdict = NoVerdict
    /\ currentFlight = NoCurrentFlight
    /\ timers = 0
    /\ pollInterval = FALSE
    /\ flightStatus = NoFlightStatus

\* the steps of invocation 1 of the dispatcher
DispatchStep ==
    \/ \E why \in Refusals : DispatchRefused(1, why)
    \/ DispatchSelectFails(1)
    \/ DispatchStart(1)
    \/ \E n \in NotifIds : DispatchSkip(1, n)
    \/ \E n \in NotifIds, ok \in BOOLEAN : DispatchSend(1, n, ok)
    \/ \E n \in NotifIds : DispatchSendHangs(1, n)
    \/ \E ok \in BOOLEAN : DispatchMark(1, ok)
    \/ DispatchFinish(1)

\* The dispatcher invoked by the cron trigger, one invocation at a time, with
\* any header and any answer of the database and of the provider; the
\* platform can kill an invocation.
NextQueue ==
    \/ Tick
    \/ DispatchStep
    \/ DispatchCrash(1)

SpecQueue == InitQueue /\ [][NextQueue]_vars

\* an invocation that can take a step takes one; only a provider that never
\* answers, or the platform, stops it
SpecQueueFair == SpecQueue /\ WF_vars(DispatchStep)

\* the database after user 1 subscribed with a flight, used the verification
\* link and had the flight completed with an eligible verdict by track-flight
\* (the trigger rows, then the result row), and user 2 subscribed
InitOverlap ==
    /\ users = [u \in UserIds |->
          IF u = 1
          THEN [state |-> "active", email |-> "a", email_verified |-> TRUE,
                consent_given |-> TRUE, has_token |-> FALSE]
          ELSE IF u = 2
          THEN [state |-> "active", email |-> "b", email_verified |-> FALSE,
                consent_given |-> TRUE, has_token |-> TRUE]
          ELSE NoUser]
    /\ now = 0
    /\ flights = SetToBag({FlightRecord(1, "F1", "completed", f) :
                              f \in {ClientFlightData(r, 180) : r \in Routes}})
    /\ notifs = << Notification(1, "F1", "followup_15d", "followup_donation",
                                FollowupFirstDays),
                   Notification(1, "F1", "followup_30d", "followup_donation_final",
                                FollowupFinalDays),
                   Notification(1, "F1", "flight_result", "flight_result_eligible", 0) >>
    /\ pc = [d \in Runs |-> "idle"]
    /\ batch = [d \in Runs |-> {}]
    /\ cur = [d \in Runs |-> 0]
    /\ optedOut = [d \in Runs |-> {}]
    /\ tally = [d \in Runs |-> NoTally]
    /\ response = Quiet
    /\ handed = [n \in NotifIds |-> 0]
    /\ mails = [u \in UserIds |-> IF u \in QueueUsers THEN 1 ELSE 0]
    /\ audit = QueueUsers
    /\ refused = NoRefusal
    /\ withheld = "none"
    /\ faults = 0
    /\ requests = 0
    /\ input = NoInput
    /\ verdict = NoVerdict
    /\ currentFlight = NoCurrentFlight
    /\ timers = 0
    /\ pollInterval = FALSE
    /\ flightStatus = NoFlightStatus

\* The dispatcher with a trigger that can fire while an invocation is
\* running: two invocations overlap while users erase their data; no crash
\* and no failed update.
NextOverlap ==
    \/ Tick
    \/ \E e \in Emails : EraseUser(e)
    \/ \E d \in Runs : DispatchStart(d)
    \/ \E d \in Runs, n \in NotifIds, ok \in BOOLEAN : DispatchSend(d, n, ok)
    \/ \E d \in Runs : DispatchMark(d, TRUE)
    \/ \E d \in Runs : DispatchFinish(d)

SpecOverlap == InitOverlap /\ [][NextOverlap]_vars

----------------------------------------------------------------------------
(* The dispatcher on a table with more due records than one batch *)

BacklogLen == BatchLimit + BacklogOver
BacklogIds == 1..BacklogLen

\* ids of the result records of the table
BacklogResults == (BatchLimit + 1)..BacklogLen

\* the table: BatchLimit records of user 1 whose template the dispatcher does
\* not know, then the result records of the flight of user 1; all are due
InitBacklog ==
    /\ users = [u \in UserIds |->
          IF u = 1
          THEN [state |-> "active", email |-> "a", email_verified |-> TRUE,
                consent_given |-> TRUE, has_token |-> FALSE]
          ELSE NoUser]
    /\ flights = SetToBag({FlightRecord(1, "F1", "completed", f) :
                              f \in {ClientFlightData(r, 180) : r \in Routes}})
    /\ notifs = [i \in BacklogIds |->
          IF i \notin BacklogResults
          THEN [user_id |-> 1, flight |-> "none", type |-> "welcome",
                template_used |-> "welcome", status |-> "pending",
                external_id |-> Null, scheduled_for |-> 0, created_at |-> 0]
          ELSE [user_id |-> 1, flight |-> "F1", type |-> "flight_result",
                template_used |-> "flight_result_eligible",
                status |-> "pending", external_id |-> Null,
                scheduled_for |-> 0, created_at |-> 0]]
    /\ now = 0
    /\ pc = [d \in Runs |-> "idle"]
    /\ batch = [d \in Runs |-> {}]
    /\ cur = [d \in Runs |-> 0]
    /\ optedOut = [d \in Runs |-> {}]
    /\ tally = [d \in Runs |-> NoTally]
    /\ response = Quiet
    /\ handed = [n \in BacklogIds |-> 0]
    /\ mails = [u \in UserIds |-> IF u = 1 THEN 1 ELSE 0]
    /\ audit = {1}
    /\ refused = NoRefusal
    /\ withheld = "none"
    /\ faults = 0
    /\ requests = 0
    /\ input = NoInput
    /\ verdict = NoVerdict
    /\ currentFlight = NoCurrentFlight
    /\ timers = 0
    /\ pollInterval = FALSE
    /\ flightStatus = NoFlightStatus

\* the loop takes the rows in the order of the array the select returned:
\* here the selected rows come back in the order of their ids
NextInArray(d, n) == n \in batch[d] /\ \A m \in batch[d] : n <= m

\* the steps of invocation 1 with a provider that answers every send
BacklogStep ==
    \/ DispatchStart(1)
    \/ \E n \in BacklogIds : NextInArray(1, n) /\ DispatchSkip(1, n)
    \/ \E n \in BacklogIds, ok \in BOOLEAN :
          NextInArray(1, n) /\ DispatchSend(1, n, ok)
    \/ \E ok \in BOOLEAN : DispatchMark(1, ok)
    \/ DispatchFinish(1)

\* The dispatcher invoked again and again by the cron trigger on the table;
\* a status update can fail and the platform can kill an invocation.
NextBacklog ==
    \/ BacklogStep
    \/ DispatchCrash(1)

SpecBacklog == InitBacklog /\ [][NextBacklog]_vars

\* the trigger keeps firing and an invocation that can take a step takes one
SpecBacklogFair == SpecBacklog /\ WF_vars(BacklogStep)

----------------------------------------------------------------------------
\* The requests of the API without the dispatcher: subscribe with any body
\* and a database that can fail, verify with any token, unsubscribe, erasure
\* and track-flight.
NextAccount ==
    \/ \E u \in UserIds, k \in FlightKeys, st \in ReqStatus, f \in FlightData :
          TrackFlightById(u, k, st, f)
    \/ \E e \in Emails, k \in FlightKeys, st \in ReqStatus, f \in FlightData :
          TrackFlightByEmail(e, k, st, f)
    \/ \E e \in EmailFields, c \in ConsentFields, wf \in BOOLEAN,
          k \in FlightKeys, f \in FlightData, o \in SubscribeOutcomes :
          SubscribeRequest(e, c, wf, k, f, o)
    \/ \E t \in Tokens : VerifyRequest(t)
    \/ \E e \in Emails : Unsubscribe(e)
    \/ \E e \in Emails : EraseUser(e)

SpecAccount == Init /\ [][NextAccount]_vars

----------------------------------------------------------------------------
(* The web client (app.js) *)

\* UIController.trackFlight: searchFlight, calculateDistance,
\* calculateCompensation, then tracker.startTracking(fullFlightData), which
\* sets an interval for a live flight and clears none
UITrackFlight(route, delayMinutes, isLive, progress) ==
    LET data == ClientFlightData(route, delayMinutes)
    IN  /\ currentFlight' =
              [departure |-> data.departure, arrival |-> data.arrival,
               distance |-> data.distance, delayMinutes |-> data.delayMinutes,
               compensation |-> data.compensation, isLive |-> isLive,
               status |-> IF isLive THEN "in_flight" ELSE "arrived",
               progress |-> IF isLive THEN progress ELSE 100]
        /\ isLive => timers < MaxTimers
        /\ timers' = IF isLive THEN timers + 1 ELSE timers
        /\ pollInterval' = IF isLive THEN TRUE ELSE pollInterval
        /\ response' = Quiet
        /\ NoRequest
        /\ UNCHANGED <<dbVars, now, runVars, requests, input, verdict,
                       flightStatus>>

\* FlightTracker.pollUpdate, on the timer of a live flight: while the flight
\* is in the air the delay may grow and the progress advances
PollUpdate(inc) ==
    /\ timers > 0
    /\ currentFlight # NoCurrentFlight
    /\ currentFlight.isLive
    /\ currentFlight.status = "in_flight"
    /\ currentFlight' =
          [currentFlight EXCEPT
              !.delayMinutes = @ + inc,
              !.progress = Min(100, @ + 1),
              !.status = IF Min(100, currentFlight.progress + 1) >= 100
                         THEN "arrived" ELSE @]
    /\ response' = Quiet
    /\ NoRequest
    /\ UNCHANGED <<dbVars, now, runVars, requests, input, verdict, timers,
                   pollInterval, flightStatus>>

\* the reminder form: POST /api/subscribe with the tracked flight, served by
\* the subscribe handler
UISubscribe(e, k) ==
    /\ currentFlight # NoCurrentFlight
    /\ Subscribe(e, TRUE, k,
                 [departure |-> currentFlight.departure,
                  arrival |-> currentFlight.arrival,
                  distance |-> currentFlight.distance,
                  delayMinutes |-> currentFlight.delayMinutes,
                  compensation |-> currentFlight.compensation])

\* One web client and the API: the client tracks a flight, polls and
\* subscribes; track-flight requests come from any HTTP client.
NextTrack ==
    \/ \E r \in Routes, d \in ClientDelays, live \in BOOLEAN, p \in LiveProgress :
          UITrackFlight(r, d, live, p)
    \/ \E inc \in PollIncrements : PollUpdate(inc)
    \/ \E e \in Emails, k \in FlightKeys : UISubscribe(e, k)
    \/ \E u \in UserIds, k \in FlightKeys, st \in ReqStatus, f \in AnyFlightData :
          TrackFlightById(u, k, st, f)
    \/ \E e \in Emails, k \in FlightKeys, st \in ReqStatus, f \in AnyFlightData :
          TrackFlightByEmail(e, k, st, f)

SpecTrack == Init /\ [][NextTrack]_vars

\* FlightTracker.stopTracking: clears the interval whose handle the tracker
\* holds, if it holds one, and forgets the flight
StopTracking ==
    /\ timers' = IF pollInterval THEN timers - 1 ELSE timers
    /\ pollInterval' = FALSE
    /\ currentFlight' = NoCurrentFlight
    /\ response' = Quiet
    /\ NoRequest
    /\ UNCHANGED <<dbVars, now, runVars, requests, input, verdict,
                   flightStatus>>

\* One web client whose tracker is called in any order: trackFlight
\* (startTracking), the ticks of the intervals that are active, stopTracking,
\* and the reminder form for the flight the tracker holds.
NextTracker ==
    \/ \E r \in Routes, d \in ClientDelays, live \in BOOLEAN, p \in LiveProgress :
          UITrackFlight(r, d, live, p)
    \/ \E inc \in PollIncrements : PollUpdate(inc)
    \/ StopTracking
    \/ \E e \in Emails, k \in FlightKeys : UISubscribe(e, k)

SpecTracker == Init /\ [][NextTracker]_vars

\* The calculator on its own: a call with any of the inputs.
InitCalc ==
    /\ users = [u \in UserIds |-> NoUser]
    /\ flights = EmptyBag
    /\ notifs = <<>>
    /\ now = 0
    /\ pc = [d \in Runs |-> "idle"]
    /\ batch = [d \in Runs |-> {}]
    /\ cur = [d \in Runs |-> 0]
    /\ optedOut = [d \in Runs |-> {}]
    /\ tally = [d \in Runs |-> NoTally]
    /\ response = Quiet
    /\ handed = [n \in NotifIds |-> 0]
    /\ mails = [u \in UserIds |-> 0]
    /\ audit = {}
    /\ refused = NoRefusal
    /\ withheld = "none"
    /\ faults = 0
    /\ requests = 0
    /\ input \in Inputs
    /\ verdict = NoVerdict
    /\ currentFlight = NoCurrentFlight
    /\ timers = 0
    /\ pollInterval = FALSE
    /\ flightStatus = NoFlightStatus

\* calculateCompensation(distance, delayMinutes, country, country) returns
Calculate ==
    /\ verdict = NoVerdict
    /\ verdict' = calculateCompensation(input.distanceKm, input.delayMinutes,
                                        input.departureCountry,
                                        input.arrivalCountry)
    /\ response' = Quiet
    /\ NoRequest
    /\ UNCHANGED <<dbVars, now, runVars, requests, input, currentFlight,
                   timers, pollInterval, flightStatus>>

NextCalc == Calculate

SpecCalc == InitCalc /\ [][NextCalc]_vars

\* One flight seen by both calculators: flight-status has found the flight
\* (airports and delay), and the client is about to call its calculator with
\* the distance and the countries of the same airports and the same delay.
InitAgree ==
    /\ users = [u \in UserIds |-> NoUser]
    /\ flights = EmptyBag
    /\ notifs = <<>>
    /\ now = 0
    /\ pc = [d \in Runs |-> "idle"]
    /\ batch = [d \in Runs |-> {}]
    /\ cur = [d \in Runs |-> 0]
    /\ optedOut = [d \in Runs |-> {}]
    /\ tally = [d \in Runs |-> NoTally]
    /\ response = Quiet
    /\ handed = [n \in NotifIds |-> 0]
    /\ mails = [u \in UserIds |-> 0]
    /\ audit = {}
    /\ refused = NoRefusal
    /\ withheld = "none"
    /\ faults = 0
    /\ requests = 0
    /\ \E a \in Airports, b \in Airports, d \in StatusDelays :
          /\ a # b
          /\ flightStatus = [departure |-> a, arrival |-> b, delayMinutes |-> d,
                             compensation |-> NoVerdict]
          /\ input = [distanceKm |-> AirportDistance(a, b), delayMinutes |-> d,
                      departureCountry |-> AirportCountry(a),
                      arrivalCountry |-> AirportCountry(b)]
    /\ verdict = NoVerdict
    /\ currentFlight = NoCurrentFlight
    /\ timers = 0
    /\ pollInterval = FALSE

\* the handler of flight-status answers: "Add compensation calculation"
FlightStatus ==
    /\ flightStatus.compensation = NoVerdict
    /\ flightStatus' =
          [flightStatus EXCEPT !.compensation =
              serverCalculateCompensation(flightStatus.delayMinutes,
                                          flightStatus.departure,
                                          flightStatus.arrival)]
    /\ response' = Quiet
    /\ NoRequest
    /\ UNCHANGED <<dbVars, now, runVars, requests, input, verdict,
                   currentFlight, timers, pollInterval>>

NextAgree == Calculate \/ FlightStatus

SpecAgree == InitAgree /\ [][NextAgree]_vars

TypeOK ==
    /\ Len(notifs) <= MaxNotifs \/ Len(notifs) = BacklogLen
    /\ now \in 0..FollowupFinalDays
    /\ \A d \in Runs :
          pc[d] \in {"idle", "loop", "mark_sent", "mark_failed", "await_send"}

----------------------------------------------------------------------------
(* Helpers of the properties *)

Rows == 1..Len(notifs)

\* the notifications of the tracked flight (u, k)
OfFlight(u, k) == {i \in Rows : notifs[i].user_id = u /\ notifs[i].flight = k}

\* the kinds of notification the flight (u, k) has
KindsOf(u, k) == {notifs[i].type : i \in OfFlight(u, k)}

\* the run d has a record accepted by the provider in this step
SendAccepted(d) == pc[d] = "loop" /\ pc'[d] = "mark_sent"

\* the run d reads its batch in this step
Selects(d) == pc[d] = "idle" /\ pc'[d] # "idle"

\* the run d hands a record to the provider in this step
Hands(d) == pc[d] = "loop" /\ pc'[d] \in {"mark_sent", "mark_failed"}

\* offset of scheduled_for from the creation of the record, by kind
OffsetOf(type) ==
    CASE type = "followup_15d" -> FollowupFirstDays
      [] type = "followup_30d" -> FollowupFinalDays
      [] OTHER -> 0

----------------------------------------------------------------------------
(* Properties *)

\* C1: a tracked flight never has more than one non-cancelled notification
\* of the same kind, whatever track-flight and subscribe requests were served.
C1_AtMostOnePerKind ==
    \A u \in UserIds, k \in FlightKeys, t \in FlightKinds :
        Cardinality({i \in OfFlight(u, k) :
                        notifs[i].type = t /\ notifs[i].status # "cancelled"}) <= 1

\* C2: with dispatcher runs that do not overlap (a run may crash, a status
\* update may fail), every notification is handed to the e-mail provider at
\* most once, and a run never selects a record whose status is 'sent'.
C2_ExactlyOnceSequential ==
    /\ [](\A n \in NotifIds : handed[n] <= 1)
    /\ [][\A d \in Runs : Selects(d) =>
             \A n \in batch'[d] : notifs[n].status # "sent"]_vars

\* C3: when two dispatcher runs overlap, no notification is accepted by the
\* provider from both of them: the two runs are never both past the send of
\* the same record.
C3_NoDoubleSendUnderOverlap ==
    \A d \in Runs, e \in Runs :
        d # e => ~(/\ pc[d] = "mark_sent"
                   /\ pc[e] = "mark_sent"
                   /\ cur[d] = cur[e])

\* C4: a dispatcher run that selects after a user's unsubscribe or erasure
\* sends no e-mail to that user, unless the user has subscribed again.
C4_NoSendAfterCancel ==
    [][\A d \in Runs :
          SendAccepted(d) => notifs[cur'[d]].user_id \notin optedOut[d]]_vars

C6_CancelRespected ==
    [][\A i \in Rows :
          notifs[i].status = "cancelled" =>
             /\ notifs'[i].status = "cancelled"
             /\ handed'[i] = handed[i]]_vars

\* C7: a flight that is completed with an eligible verdict has all three
\* notifications, and no flight has only some of the three.
C7_AllThreeTogether ==
    \A u \in UserIds, k \in FlightKeys :
        /\ (TrackedFlight(u, k).status = "completed"
              /\ TrackedFlight(u, k).compensation_eligible)
           => KindsOf(u, k) = FlightKinds
        /\ KindsOf(u, k) \in {{}, FlightKinds}

\* C8: every notification is scheduled at its creation time plus the offset
\* of its kind (0, 15, 30 days), and for every flight the result is scheduled
\* before the first follow-up and the first before the final follow-up.
C8_FixedOffsets ==
    /\ \A i \in Rows :
          notifs[i].scheduled_for = notifs[i].created_at + OffsetOf(notifs[i].type)
    /\ \A u \in UserIds, k \in FlightKeys :
          \A i \in OfFlight(u, k), j \in OfFlight(u, k) :
             /\ (notifs[i].type = "flight_result" /\ notifs[j].type = "followup_15d")
                   => notifs[i].scheduled_for < notifs[j].scheduled_for
             /\ (notifs[i].type = "followup_15d" /\ notifs[j].type = "followup_30d")
                   => notifs[i].scheduled_for < notifs[j].scheduled_for

\* C9: every flight-bound notification is created by a step after which its
\* flight is completed with an eligible verdict; a request that leaves the
\* flight tracking or ineligible creates none.
C9_SchedulingGuard ==
    [][\A i \in (Len(notifs) + 1)..Len(notifs') :
          notifs'[i].type \in FlightKinds =>
             /\ TrackedIn(flights', notifs'[i].user_id, notifs'[i].flight).status
                   = "completed"
             /\ TrackedIn(flights', notifs'[i].user_id, notifs'[i].flight)
                   .compensation_eligible
      ]_vars

\* C9 witness: a request for a tracked flight has created the follow-ups and
\* the result notification.
C9_Witness ==
    \E u \in UserIds, k \in FlightKeys :
        /\ KindsOf(u, k) = FlightKinds
        /\ TrackedFlight(u, k).status = "completed"

\* C10: the status of a tracked flight never goes from completed back to
\* tracking.
C10_StatusMonotonic ==
    [][\A u \in UserIds, k \in FlightKeys :
          TrackedFlight(u, k).status = "completed"
             => TrackedIn(flights', u, k).status # "tracking"]_vars

\* the verdict the calculator gives for the stored columns of a flight row
VerdictFor(row) ==
    calculateCompensation(row.distance_km, row.delay_minutes,
                          AirportCountry(row.departure_airport),
                          AirportCountry(row.arrival_airport))

\* a stored amount and currency are those of the verdict v (NULL stands for
\* no amount; the default 'EUR' of the column stands for the euro sign)
SameMoney(row, v) ==
    /\ row.compensation_amount = (IF v.amount = 0 THEN Null ELSE v.amount)
    /\ \/ row.compensation_currency = v.currency
       \/ row.compensation_currency = "EUR" /\ v.currency = "€"

\* number of rows of the table for the flight k of user u
CopiesOfKey(table, u, k) ==
    BagCardinality([r \in {q \in BagToSet(table) :
                              q.user_id = u /\ q.flight = k} |-> table[r]])

\* C11: the verdict stored with every tracked flight (eligible, amount,
\* currency) is the calculator's verdict for the distance, delay and airports
\* stored with it, whatever track-flight requests, subscribe requests and
\* polls of the client came before.
C11_DerivedVerdict ==
    \A r \in BagToSet(flights) :
        /\ r.compensation_eligible = VerdictFor(r).eligible
        /\ SameMoney(r, VerdictFor(r))

\* C12: tracked_flights never holds two rows for the same user, flight
\* number and flight date, whatever subscribe and track-flight requests were
\* served: a request for a flight already tracked replaces its row.
C12_FlightUniqueness ==
    \A u \in UserIds, k \in FlightKeys : CopiesOfKey(flights, u, k) <= 1

\* C12 witness: a flight was tracked and a later request for the same flight
\* completed it (the update fired the follow-up trigger); it has one row.
C12_Witness ==
    \E u \in UserIds, k \in FlightKeys :
        /\ CopiesOfKey(flights, u, k) = 1
        /\ TrackedFlight(u, k).status = "completed"
        /\ "followup_15d" \in KindsOf(u, k)
        /\ requests >= 2

\* the call of the calculator has returned
Returned == verdict # NoVerdict

\* the flight of the call departs from or arrives in the UK
InputIsUk == input.departureCountry = "GB" \/ input.arrivalCountry = "GB"

C14_EligibilityGate ==
    Returned =>
        /\ verdict.eligible <=> input.delayMinutes >= 180
        /\ input.delayMinutes < 180 => verdict.amount = 0

\* C14 witness: a long-haul flight delayed 179 minutes got no compensation.
C14_Witness ==
    /\ Returned
    /\ input.delayMinutes = 179
    /\ input.distanceKm = 4000
    /\ ~verdict.eligible
    /\ verdict.amount = 0

C16_InvalidInputRejected ==
    (input.distanceKm < 0 \/ input.delayMinutes < 0) => ~Returned

\* C17: the currency of every verdict is the pound when the departure or the
\* arrival country is the UK and the euro otherwise, whatever the distance
\* and the delay.
C17_CurrencyByJurisdiction ==
    Returned => verdict.currency = IF InputIsUk THEN "£" ELSE "€"

\* C18: every flight of more than 3500 km delayed 180 minutes or more gets
\* 600 euros, or 520 pounds for a UK flight.
C18_ReadmeTopBand ==
    (Returned /\ input.distanceKm > 3500 /\ input.delayMinutes >= 180) =>
        verdict.amount = IF InputIsUk THEN 520 ELSE 600

\* C19: every record a dispatcher run selects is pending and due, and every
\* record handed to the provider is pending and due at that moment: a record
\* that is not yet due, or sent, failed or cancelled, is never sent.
C19_OnlyPendingAndDue ==
    /\ [][\A d \in Runs : Selects(d) =>
             \A n \in batch'[d] :
                 notifs[n].status = "pending" /\ notifs[n].scheduled_for <= now
       ]_vars
    /\ [][\A d \in Runs : Hands(d) =>
             /\ notifs[cur'[d]].status = "pending"
             /\ notifs[cur'[d]].scheduled_for <= now]_vars

\* C20: no flight notification is handed to the provider while its owner's
\* e-mail is not verified; until then the record is neither sent nor marked
\* by the dispatcher, and the step that verifies the owner puts every pending
\* due record of the owner in the view the dispatcher selects from.
C20_VerifiedEmailGate ==
    /\ [][\A d \in Runs : Hands(d) =>
             (notifs[cur'[d]].type \in FlightKinds
                 => users[notifs[cur'[d]].user_id].email_verified)]_vars
    /\ [][\A i \in Rows :
             (/\ notifs[i].type \in FlightKinds
              /\ notifs[i].status = "pending"
              /\ ~users[notifs[i].user_id].email_verified)
             => /\ notifs'[i].status \in {"pending", "cancelled"}
                /\ handed'[i] = handed[i]]_vars
    /\ [][\A u \in UserIds :
             (~users[u].email_verified /\ users'[u].email_verified) =>
                \A i \in Rows :
                   (/\ notifs[i].user_id = u
                    /\ notifs[i].status = "pending"
                    /\ notifs[i].scheduled_for <= now)
                   => i \in PendingNotifications']_vars

\* C20 witness: a flight notification was sent to a user who has used the
\* verification link.
C20_Witness ==
    \E i \in Rows :
        /\ notifs[i].type \in FlightKinds
        /\ notifs[i].status = "sent"
        /\ handed[i] = 1
        /\ users[notifs[i].user_id].email_verified
        /\ ~users[notifs[i].user_id].has_token

----------------------------------------------------------------------------
(* Properties of the dispatcher's runs *)

\* the record n has a template the dispatcher knows
Known(n) == TemplateName(notifs[n].template_used) \in Templates

\* the run d reads the view in this step: it enters its loop, or returns the
\* answer for an empty result
Reads(d) ==
    /\ pc[d] = "idle"
    /\ \/ pc'[d] = "loop"
       \/ response'[d] = EmptyResult

\* the run d returns from its loop in this step
Ends(d) == pc[d] = "loop" /\ pc'[d] = "idle" /\ response'[d] # NoResponse

\* the run d is killed in this step
Killed(d) == pc[d] # "idle" /\ pc'[d] = "idle" /\ response'[d] = NoResponse

\* the run d leaves the record it has handed to the provider in this step
Marks(d) == pc[d] \in {"mark_sent", "mark_failed"} /\ pc'[d] = "loop"

C22_DeletedNeverSelected ==
    /\ [][\A u \in UserIds :
             users[u].state = "deleted" => users'[u].state = "deleted"]_vars
    /\ [][\A d \in Runs : Reads(d) =>
             \A n \in batch'[d] : users[notifs[n].user_id].state # "deleted"]_vars
    /\ [][\A d \in Runs : Hands(d) => cur'[d] \in batch[d]]_vars

\* C22 witness: a user who had verified the address was erased, a track-flight
\* request by userId then created a notification that is pending and due;
\* the view is empty, the dispatcher has answered that nothing is pending and
\* the record was never handed to the provider.
C22_Witness ==
    \E i \in Rows :
        /\ users[notifs[i].user_id].state = "deleted"
        /\ users[notifs[i].user_id].email_verified
        /\ notifs[i].status = "pending"
        /\ notifs[i].scheduled_for <= now
        /\ handed[i] = 0
        /\ PendingNotifications = {}
        /\ response[1] = EmptyResult

\* C23: when a run leaves a record it handed to the provider, the record is
\* 'sent' with sent_at and the delivery id recorded if the provider accepted
\* it and 'failed' if the provider reported an error; it is not left pending.
C23_TerminalStatePerOutcome ==
    [][\A d \in Runs : Marks(d) =>
          IF pc[d] = "mark_sent"
          THEN /\ notifs'[cur[d]].status = "sent"
               /\ notifs'[cur[d]].external_id # Null
          ELSE notifs'[cur[d]].status = "failed"]_vars

\* C24: a notification whose status is 'failed' keeps that status, is in the
\* batch of no dispatcher run and is not handed to the provider again.
C24_FailedIsTerminal ==
    [][\A i \in Rows :
          notifs[i].status = "failed" =>
             /\ notifs'[i].status = "failed"
             /\ handed'[i] = handed[i]
             /\ \A d \in Runs : i \notin batch'[d]]_vars

\* C24 witness: a record failed in an earlier run, and a later run has read
\* its batch, without that record, and has counted no failure yet.
C24_Witness ==
    \E i \in Rows :
        /\ notifs[i].status = "failed"
        /\ handed[i] = 1
        /\ notifs[i].scheduled_for <= now
        /\ pc[1] = "loop"
        /\ batch[1] # {}
        /\ i \notin batch[1]
        /\ tally[1].failed = 0

\* C25: a selected record whose template is unknown is never handed to the
\* provider and stays pending; the turn of the loop that takes it counts it in
\* skipped alone and goes on with the other records of the batch, and the run
\* returns only when every record of the batch was counted.
C25_UnknownTemplateSkipped ==
    /\ [](\A n \in Rows :
             ~Known(n) => handed[n] = 0 /\ notifs[n].status = "pending")
    /\ [][\A n \in Rows :
             (~Known(n) /\ n \in batch[1] /\ n \notin batch'[1] /\ ~Killed(1)) =>
                /\ tally'[1] = [tally[1] EXCEPT !.skipped = @ + 1]
                /\ batch'[1] = batch[1] \ {n}
                /\ pc'[1] = "loop"]_vars
    /\ [][Ends(1) =>
             /\ batch[1] = {}
             /\ response'[1].processed =
                   response'[1].sent + response'[1].failed + response'[1].skipped
       ]_vars

\* C25 witness: a run has returned a summary that counts a skipped and a sent
\* record; the skipped record is still pending and was never handed over.
C25_Witness ==
    /\ response[1].body = "summary"
    /\ response[1].skipped >= 1
    /\ response[1].sent >= 1
    /\ \E n \in Rows :
          /\ ~Known(n)
          /\ notifs[n].scheduled_for <= now
          /\ users[notifs[n].user_id].email_verified
          /\ notifs[n].status = "pending"
          /\ handed[n] = 0

\* C26: after a failed delivery the run counts the failure and goes on with
\* the records left in its batch; it returns from its loop with status 200
\* and the summary of its counters, and no response with an error status is
\* returned from the loop.
C26_FailureIsolation ==
    /\ [][(pc[1] = "mark_failed" /\ Marks(1)) =>
             /\ pc'[1] = "loop"
             /\ batch'[1] = batch[1]
             /\ tally'[1].failed = tally[1].failed + 1]_vars
    /\ [][Ends(1) =>
             /\ batch[1] = {}
             /\ response'[1] = Summary(tally[1])
             /\ response'[1].status = 200]_vars
    /\ [][(response'[1] # NoResponse /\ response'[1].body = "error") =>
             pc[1] = "idle"]_vars

\* C26 witness: a run has returned status 200 and a summary that counts a
\* failure and a delivery; one record is failed and another is sent.
C26_Witness ==
    /\ response[1].status = 200
    /\ response[1].body = "summary"
    /\ response[1].failed >= 1
    /\ response[1].sent >= 1
    /\ \E i \in Rows, j \in Rows :
          notifs[i].status = "failed" /\ notifs[j].status = "sent"

\* C27: a run that reads the view in the step after a run has returned its
\* summary enters no loop, hands nothing to the provider and returns the
\* summary with processed, sent, failed and skipped all 0.
C27_RunTwiceSafety ==
    [][(response[1].body = "summary" /\ Reads(1)) =>
          /\ pc'[1] = "idle"
          /\ response'[1] = Summary(NoTally)
          /\ handed' = handed]_vars

\* C28: when the read of the view fails, the run returns status 500 and
\* leaves every notification, the provider and its own position as they were.
C28_SelectionFailureAborts ==
    [][(/\ response'[1] # NoResponse
        /\ response'[1].error = "Failed to fetch notifications") =>
          /\ response'[1].status = 500
          /\ notifs' = notifs
          /\ handed' = handed
          /\ pc' = pc
          /\ batch' = batch]_vars

\* C28 witness: the read has failed while records were selectable; no record
\* was handed over and every one is still pending.
C28_Witness ==
    /\ response[1].error = "Failed to fetch notifications"
    /\ PendingNotifications # {}
    /\ \A n \in Rows : handed[n] = 0 /\ notifs[n].status = "pending"

\* C29: an invocation with a wrong Authorization header, or while CRON_SECRET
\* is not configured, returns status 401 or 500 and leaves every
\* notification, the provider and the dispatcher's position as they were.
C29_UnauthorizedNoEffect ==
    [][(/\ response'[1] # NoResponse
        /\ response'[1].error \in {"Unauthorized", "CRON_SECRET not configured"}) =>
          /\ response'[1].status =
                (IF response'[1].error = "Unauthorized" THEN 401 ELSE 500)
          /\ notifs' = notifs
          /\ handed' = handed
          /\ pc' = pc
          /\ batch' = batch]_vars

\* C29 witness: an invocation with a wrong header was answered 401 while
\* records were selectable; no record was handed over or changed.
C29_Witness ==
    /\ response[1].error = "Unauthorized"
    /\ response[1].status = 401
    /\ PendingNotifications # {}
    /\ \A n \in Rows : handed[n] = 0 /\ notifs[n].status = "pending"

\* C30: every run that is in progress ends: its invocation returns a
\* response, whatever the provider does.
C30_RunTerminates ==
    (pc[1] # "idle") ~> (pc[1] = "idle" /\ response[1] # NoResponse)

----------------------------------------------------------------------------
(* Properties of the account requests *)

\* C31: every user row had exactly one verification message issued for it,
\* whatever subscribe requests were served, and a subscribe request for an
\* address that belongs to a user who is not deleted issues none.
C31_VerificationOncePerRegistration ==
    /\ [](\A u \in UserIds : users[u].state # "none" => mails[u] = 1)
    /\ [][\A e \in Emails, c \in ConsentFields, wf \in BOOLEAN,
            k \in FlightKeys, f \in FlightData, o \in SubscribeOutcomes :
             (ActiveUserByEmail(e) # 0 /\ SubscribeRequest(e, c, wf, k, f, o))
                => mails' = mails]_vars

\* C32: a subscribe request whose consent field is absent, not a boolean or
\* false is answered with status 400 and leaves the users, the tracked
\* flights, the notifications, the audit log and the provider as they were.
C32_ConsentRequired ==
    [][withheld' # "none" =>
          /\ refused'.status = 400
          /\ users' = users
          /\ flights' = flights
          /\ notifs' = notifs
          /\ audit' = audit
          /\ mails' = mails]_vars

\* C32 witness: a user who withdrew consent asked again with consent = false;
\* the request was refused and the user is still without consent.
C32_Witness ==
    /\ withheld = "false"
    /\ refused.status = 400
    /\ refused.error = "Explicit consent is required to process your data"
    /\ \E u \in UserIds :
          /\ users[u].state = "active"
          /\ ~users[u].consent_given
          /\ u \in audit
          /\ mails[u] = 1

----------------------------------------------------------------------------
(* Properties of the dispatcher under a backlog *)

\* C33: the number a run keeps as processed is the number of records its read
\* selected, from the read to the return; every summary a run returns has
\* processed = sent + failed + skipped, and processed is at most 50.
C33_SummaryAccounting ==
    /\ [][Reads(1) => tally'[1].processed = Cardinality(batch'[1])]_vars
    /\ [][(pc[1] # "idle" /\ ~Killed(1)) =>
             /\ tally'[1].processed = tally[1].processed \/ Ends(1)
             /\ Ends(1) => response'[1].processed = tally[1].processed]_vars
    /\ [](response[1].body = "summary" =>
             /\ response[1].processed =
                   response[1].sent + response[1].failed + response[1].skipped
             /\ response[1].processed <= BatchLimit)

\* C33 witness: more than 50 records were due, and a run has returned a
\* summary of exactly 50 processed records, all of them skipped; the records
\* are still due.
C33_Witness ==
    /\ response[1].body = "summary"
    /\ response[1].processed = BatchLimit
    /\ response[1].skipped = BatchLimit
    /\ Cardinality(PendingNotifications) > BatchLimit

SentOfKind(n, type) ==
    \E i \in OfFlight(notifs[n].user_id, notifs[n].flight) :
        notifs[i].type = type /\ notifs[i].status = "sent"

\* C35: when the provider accepts a follow-up, the result notification of the
\* same flight is already sent, and when it accepts the final follow-up, the
\* first follow-up of the flight is already sent.
C35_DeliveryOrderPerFlight ==
    [][\A d \in Runs : SendAccepted(d) =>
          /\ notifs[cur'[d]].type \in {"followup_15d", "followup_30d"}
                => SentOfKind(cur'[d], "flight_result")
          /\ notifs[cur'[d]].type = "followup_30d"
                => SentOfKind(cur'[d], "followup_15d")]_vars

\* C36: a notification whose status is 'sent' keeps that status in every
\* step, also when dispatcher runs overlap.
C36_SentIsAbsorbing ==
    [][\A i \in Rows :
          notifs[i].status = "sent" => notifs'[i].status = "sent"]_vars

\* C38: once both calculators have answered for the same flight, the verdict
\* of flight-status and the verdict of the Eligibility Calculator have the same
\* eligibility, the same amount and the same currency.
C38_CalculatorsAgree ==
    (verdict # NoVerdict /\ flightStatus.compensation # NoVerdict) =>
        /\ flightStatus.compensation.eligible = verdict.eligible
        /\ flightStatus.compensation.amount = verdict.amount
        /\ flightStatus.compensation.currency = CurrencyCode(verdict.currency)

\* C39: at most one polling interval is active; when the tracker has no
\* flight (after stopTracking) no interval is active; and a tick that finds no
\* flight changes nothing.
C39_AtMostOnePollTimer ==
    /\ [](timers <= 1)
    /\ [](currentFlight = NoCurrentFlight => timers = 0)
    /\ [][currentFlight = NoCurrentFlight =>
             ~(\E inc \in PollIncrements : PollUpdate(inc))]_vars

====
